---- MODULE Spec2Model ----
(***************************************************************************)
(* Model of terraform-provider-routeros:                                   *)
(*   routeros/resource_ip_service.go  (the /ip/service resource)           *)
(*   tools/importer/ssh.go            (command channel, identifier lookup) *)
(*                                                                         *)
(* Four specifications share the module's variables:                       *)
(*   Spec         the resource handlers Read, Create, Update               *)
(*   SpecDelete   the same handlers and Delete, on the REST transport      *)
(*   SpecImporter GetResourceId over SshConnection.Run                     *)
(*   SpecDiff     the DiffSuppressFunc of the "address" field              *)
(***************************************************************************)
EXTENDS Integers, Sequences, FiniteSets, TLC

VARIABLES
    \* ---- tools/importer/ssh.go ----
    requiredFields,   \* GetResourceId argument: the candidate fields
    pc,               \* position inside GetResourceId: "idle" | "loop" | "session"
    idx,              \* index of the field the range loop is at
    id,               \* GetResourceId's local `id` (a text: sequence of characters)
    ret,              \* value returned by the last GetResourceId call
    sessions,         \* sessions of the ssh client that are open
    cmds,             \* command lines submitted with session.Run, in order
    calls,            \* command lines conn.Run was called with, in order
    opened,           \* sessions created since GetResourceId was called
    hist,             \* what conn.Run returned for each field probed so far
    \* ---- routeros/resource_ip_service.go ----
    d,                \* *schema.ResourceData of the instance
    device,           \* items of /ip/service on the router, in reply order
    RouterOSVersion,  \* package-level version text reported by the router
    transport,        \* m.(Client).GetTransport()
    last,             \* the last handler call: what it sent and returned
    \* ---- "address" DiffSuppressFunc ----
    oldValue, newValue, suppressed

importerVars ==
    <<requiredFields, pc, idx, id, ret, sessions, cmds, calls, opened, hist>>
resourceVars == <<d, device, RouterOSVersion, transport, last>>
diffVars     == <<oldValue, newValue, suppressed>>
vars         == <<importerVars, resourceVars, diffVars>>

(***************************************************************************)
(* Bounds                                                                  *)
(***************************************************************************)
MaxFields == 3      \* longest candidate list given to GetResourceId
MaxItems  == 2      \* most items the router holds under /ip/service

(***************************************************************************)
(* tools/importer/ssh.go                                                   *)
(***************************************************************************)
\* A text is a sequence of one-character strings.
HexDigits == {"1", "6", "A"}

FieldNames == {"name", "port", "comment"}

\* Candidate lists: every sequence over FieldNames of length 0..MaxFields.
FieldLists == UNION {[1..n -> FieldNames] : n \in 0..MaxFields}

\* Standard outputs the router may print for ":put [path get [find f]]".
Outputs ==
    { <<>>,
      <<"*", "6", "A">>,
      <<"i", "d", "=", "*", "6", ";", "*", "1">>,
      <<"n", "o", " ", "*", ";", "1">> }

ImportPath == "/ip/service"

\* reId.FindStringSubmatch: the pattern is a single group, an identifier token
\* "*" followed by one or more hexadecimal digits; leftmost match, greedy.
\* No match gives the empty slice; a match gives <<whole match, group 1>>.
TokenStarts(s) ==
    {i \in 1..Len(s) : s[i] = "*" /\ i < Len(s) /\ s[i + 1] \in HexDigits}

TokenEnd(s, i) ==
    CHOOSE j \in (i + 1)..Len(s) :
        /\ \A k \in (i + 1)..j : s[k] \in HexDigits
        /\ (j = Len(s) \/ s[j + 1] \notin HexDigits)

FindStringSubmatch(s) ==
    IF TokenStarts(s) = {} THEN <<>>
    ELSE LET i == CHOOSE m \in TokenStarts(s) : \A n \in TokenStarts(s) : m <= n
             tok == SubSeq(s, i, TokenEnd(s, i))
         IN  <<tok, tok>>

\* fmt.Sprintf(":put [%v get [ find %v ]]", path, filter)
Command(path, filter) == ":put [" \o path \o " get [ find " \o filter \o " ]]"

\* What conn.Run hands back: ("", err) or (stdout, nil).
RunError   == [err |-> TRUE, out |-> <<>>]
RunOk(out) == [err |-> FALSE, out |-> out]

\* Variant of the failed command that hands back what was captured so far.
RunFailedPartial(buf) == [err |-> TRUE, out |-> buf]

\* Lines 57-59: session.Run failed; the buffer is dropped, Run returns "".
RunFailed(buf) == RunError

\* Variant of Run that closes the session on the success path only.
LeakOnFailure(n, failed) == IF failed THEN n ELSE n - 1

\* Line 51: defer session.Close(): the open sessions when Run returns.
SessionsAfterRun(n, failed) == n - 1

\* Variant of the loop that stops at the first identifier found.
BreakOnSuccess(i, n, found) == IF found THEN n + 1 ELSE i + 1

\* Lines 69-82: the range loop goes on to the next field after a failure
\* (continue) and after a success alike; n is the number of fields.
NextIndex(i, n, found) == i + 1

\* Variant of the loop body that keeps the first identifier found.
FirstWins(cur, res) ==
    LET ss == FindStringSubmatch(res)
    IN  IF Len(ss) # 2 THEN cur ELSE IF cur = <<>> THEN ss[2] ELSE cur

\* Loop body after a successful conn.Run (lines 75-81): the new value of `id`.
ExtractId(cur, res) ==
    LET ss == FindStringSubmatch(res)
    IN  IF Len(ss) # 2 THEN cur ELSE ss[2]

\* Variant of the return that hands back `id` as it is.
ReturnRaw(cur) == cur

\* Lines 84-89: the sentinel "?" when nothing was found.
ReturnId(cur) == IF cur = <<>> THEN <<"?">> ELSE cur

NoReturn == <<"<", "n", "o", "n", "e", ">">>

ImporterInit ==
    /\ requiredFields = <<>>
    /\ pc = "idle"
    /\ idx = 0
    /\ id = <<>>
    /\ ret = NoReturn
    /\ sessions = 0
    /\ cmds = <<>>
    /\ calls = <<>>
    /\ opened = 0
    /\ hist = <<>>

\* The call: GetResourceId(conn, path, requiredFields); `var id string`.
GetResourceId_Call ==
    /\ pc = "idle"
    /\ \E fs \in FieldLists : requiredFields' = fs
    /\ pc' = "loop"
    /\ idx' = 1
    /\ id' = <<>>
    /\ ret' = NoReturn
    /\ cmds' = <<>>
    /\ calls' = <<>>
    /\ opened' = 0
    /\ hist' = <<>>
    /\ UNCHANGED sessions
    /\ UNCHANGED <<resourceVars, diffVars>>

\* conn.Run, lines 47-50: c.client.NewSession() fails; Run returns ("", err)
\* and the loop continues with the next field.
Run_NewSessionFails ==
    /\ pc = "loop"
    /\ idx <= Len(requiredFields)
    /\ calls' = Append(calls, Command(ImportPath, requiredFields[idx]))
    /\ hist' = Append(hist, RunError)
    /\ idx' = NextIndex(idx, Len(requiredFields), FALSE)
    /\ UNCHANGED <<requiredFields, pc, id, ret, sessions, cmds, opened>>
    /\ UNCHANGED <<resourceVars, diffVars>>

\* conn.Run, lines 47-51: the session is created.
Run_NewSession ==
    /\ pc = "loop"
    /\ idx <= Len(requiredFields)
    /\ calls' = Append(calls, Command(ImportPath, requiredFields[idx]))
    /\ sessions' = sessions + 1
    /\ opened' = opened + 1
    /\ pc' = "session"
    /\ UNCHANGED <<requiredFields, idx, id, ret, cmds, hist>>
    /\ UNCHANGED <<resourceVars, diffVars>>

\* conn.Run, lines 57-59: session.Run(cmd) fails, with buf captured so far;
\* the deferred Close runs, Run returns ("", err) and the loop continues.
Run_CommandFails ==
    /\ pc = "session"
    /\ cmds' = Append(cmds, calls[Len(calls)])
    /\ sessions' = SessionsAfterRun(sessions, TRUE)
    /\ \E buf \in Outputs : hist' = Append(hist, RunFailed(buf))
    /\ idx' = NextIndex(idx, Len(requiredFields), FALSE)
    /\ pc' = "loop"
    /\ UNCHANGED <<requiredFields, id, ret, calls, opened>>
    /\ UNCHANGED <<resourceVars, diffVars>>

\* conn.Run, lines 57-60, then the loop body, lines 75-81.
Run_CommandOk ==
    /\ pc = "session"
    /\ \E out \in Outputs :
          /\ hist' = Append(hist, RunOk(out))
          /\ id' = ExtractId(id, out)
          /\ idx' = NextIndex(idx, Len(requiredFields),
                              Len(FindStringSubmatch(out)) = 2)
    /\ cmds' = Append(cmds, calls[Len(calls)])
    /\ sessions' = SessionsAfterRun(sessions, FALSE)
    /\ pc' = "loop"
    /\ UNCHANGED <<requiredFields, ret, calls, opened>>
    /\ UNCHANGED <<resourceVars, diffVars>>

\* Lines 84-89: the range loop is over.
GetResourceId_Return ==
    /\ pc = "loop"
    /\ idx > Len(requiredFields)
    /\ ret' = ReturnId(id)
    /\ pc' = "idle"
    /\ UNCHANGED <<requiredFields, idx, id, sessions, cmds, calls, opened, hist>>
    /\ UNCHANGED <<resourceVars, diffVars>>


(***************************************************************************)
(* routeros/resource_ip_service.go: the "address" DiffSuppressFunc         *)
(***************************************************************************)
Addresses ==
    { "", "0.0.0.0/0", "10.0.0.0/24", "10.0.0.0/8", "192.168.88.0/24",
      "::/0", "0.0.0.0/1", "10.0.0.1" }

\* Lines 46-51. The host calls it with oldValue = the value in the stored
\* state (the live value last read) and newValue = the value of the
\* configuration (the declared value).
AddressDiffSuppress(old, new) ==
    IF old = "" /\ new = "0.0.0.0/0" THEN FALSE ELSE old = new

\* suppressed is <<>> until the predicate has been applied, then <<result>>.
DiffInit ==
    /\ oldValue \in Addresses
    /\ newValue \in Addresses
    /\ suppressed = <<>>

DiffSuppress_Call ==
    /\ suppressed = <<>>
    /\ suppressed' = <<AddressDiffSuppress(oldValue, newValue)>>
    /\ UNCHANGED <<oldValue, newValue>>
    /\ UNCHANGED <<importerVars, resourceVars>>

(***************************************************************************)
(* routeros/resource_ip_service.go: the handlers                           *)
(***************************************************************************)
ServiceNames == {"ssh", "www-ssl"}
Certificates == {"", "https-cert"}
Protos       == {"tcp", "udp"}
Transports   == {"REST", "API"}

\* A version text is its dot-separated numeric segments; <<>> is a text
\* that is no version.
Versions == {<<7, 16>>, <<7, 18, 9>>, <<7, 19>>, <<>>}

\* Line 38: PropResourcePath("/ip/service").
ResourcePath == "/ip/service"

\* Line 113: ROS 7.19 => 463616.
Ros719 == 463616

\* The router numbers its items; the k-th item of a reply has .id "*k".
DeviceId(k) == "*" \o ToString(k)

\* The protocol the router reports for a service.
DeviceProto(name) == IF name = "ssh" THEN "tcp" ELSE "udp"

\* The k-th item of a router on which no certificate is assigned yet.
DeviceItem(k, name, dynamic) ==
    [id |-> DeviceId(k), name |-> name, dynamic |-> dynamic,
     certificate |-> "", proto |-> DeviceProto(name)]

\* The routers the model starts from: up to MaxItems items, static or
\* dynamic, two of which may carry the same name.
Devices ==
    UNION {{[k \in 1..n |-> DeviceItem(k, nm[k], dy[k])] :
                nm \in [1..n -> ServiceNames], dy \in [1..n -> {"true", "false"}]} :
           n \in 0..MaxItems}

\* The declared (user-supplied) fields of the record.
Declared == [numbers : ServiceNames, certificate : Certificates]

\* parseRouterOSVersion: major, minor and optional patch folded into one
\* integer, major<<16 + minor<<8 + patch; an error when the text is no version.
parseRouterOSVersion(v) ==
    IF Len(v) \notin {2, 3} THEN [err |-> TRUE, val |-> 0]
    ELSE [err |-> FALSE,
          val |-> v[1] * 65536 + v[2] * 256 + (IF Len(v) = 3 THEN v[3] ELSE 0)]

\* Variant of the gate that is strict at the threshold.
ReadFilterStrict(numbers, ver) ==
    IF ver > Ros719 THEN [name |-> numbers, dynamic |-> "false"]
    ELSE [name |-> numbers]

\* Lines 105-115: the filter map and its version-gated "dynamic" entry.
ReadFilter(numbers, ver) ==
    IF ver >= Ros719 THEN [name |-> numbers, dynamic |-> "false"]
    ELSE [name |-> numbers]

\* ReadItemsFiltered(buildReadFilter(filter), path, client): the items of the
\* router that carry every attribute value of the filter, in reply order.
ReadItemsFiltered(filter, dev) ==
    SelectSeq(dev, LAMBDA it : \A k \in DOMAIN filter : it[k] = filter[k])

\* MikrotikResourceDataToTerraform: every attribute of the item that the schema
\* knows is stored in the record, computed fields included.
MikrotikResourceDataToTerraform(item, dd) ==
    [dd EXCEPT !.certificate = item.certificate,
               !.name = item.name,
               !.proto = item.proto]

\* TerraformResourceDataToMikrotik: the item sent to the router; fields that
\* are computed only (name, proto) are left out.
TerraformResourceDataToMikrotik(dd) ==
    [numbers |-> dd.numbers, certificate |-> dd.certificate]

\* Variant of the not-found branch that keeps the stored identifier.
ReadNotFoundKeepId(dd) ==
    [d |-> dd, diags |-> "errorNoLongerExists"]

\* Lines 124-128: d.SetId(""); return diag.FromErr(errorNoLongerExists).
ReadNotFound(dd) ==
    [d |-> [dd EXCEPT !.id = ""], diags |-> "errorNoLongerExists"]

\* Variant of the found branch that adopts the identifier only.
ReadFoundIdOnly(res, dd) ==
    [d |-> [dd EXCEPT !.id = res[1].id], diags |-> "nil"]

\* Variant of the found branch that keeps the identifier stored before.
ReadFoundKeepId(res, dd) ==
    [d |-> MikrotikResourceDataToTerraform(res[1], dd), diags |-> "nil"]

\* Lines 130-132: d.SetId((*res)[0].GetID(Id)); the first item of the reply
\* is translated into the record.
ReadFound(res, dd) ==
    [d |-> MikrotikResourceDataToTerraform(res[1], [dd EXCEPT !.id = res[1].id]),
     diags |-> "nil"]

\* Lines 117-132: the query and what Read does with the reply.
ReadQuery(dd, dev, filter, getOk) ==
    LET req(ok, reply) ==
            [verb |-> "get", path |-> ResourcePath, body |-> filter,
             ok |-> ok, reply |-> reply]
        res == ReadItemsFiltered(filter, dev)
        out == IF Len(res) = 0 THEN ReadNotFound(dd) ELSE ReadFound(res, dd)
    IN  IF ~getOk
        THEN [d |-> dd, requests |-> <<req(FALSE, <<>>)>>, diags |-> "errGet",
              reads |-> 1]
        ELSE [d |-> out.d, requests |-> <<req(TRUE, res)>>, diags |-> out.diags,
              reads |-> 1]

\* Variant of resRead that goes on with the ungated filter when the version
\* does not parse.
ResReadIgnoreParseError(dd, dev, ver, getOk) ==
    LET pv == parseRouterOSVersion(ver)
    IN  ReadQuery(dd, dev, ReadFilter(dd.numbers, pv.val), getOk)

\* Lines 103-133: resRead. panic(err) ends the handler at line 109.
ResRead(dd, dev, ver, getOk) ==
    LET pv == parseRouterOSVersion(ver)
    IN  IF pv.err
        THEN [d |-> dd, requests |-> <<>>, diags |-> "panic", reads |-> 1]
        ELSE ReadQuery(dd, dev, ReadFilter(dd.numbers, pv.val), getOk)

\* Variant of the endpoint that appends the suffix on every transport.
ResUrlAlways(tr) == "/set"

\* Lines 140-145: the suffix of the endpoint.
ResUrl(tr) == IF tr = "REST" THEN "/set" ELSE ""

\* The router's side of the write: the static items named item.numbers take
\* the written values.
WriteTargets(dev, item) ==
    {k \in 1..Len(dev) : dev[k].name = item.numbers /\ dev[k].dynamic = "false"}

DeviceSet(dev, item) ==
    [k \in 1..Len(dev) |->
        IF k \in WriteTargets(dev, item)
        THEN [dev[k] EXCEPT !.certificate = item.certificate]
        ELSE dev[k]]

\* Variant of resCreateUpdate that refreshes the record before it writes.
ResCreateUpdateReadFirst(dd, dev, ver, tr, postOk, getOk) ==
    LET item == TerraformResourceDataToMikrotik(dd)
        d1   == [dd EXCEPT !.id = dd.numbers]
        r    == ResRead(d1, dev, ver, getOk)
        post == [verb |-> "post", path |-> ResourcePath \o ResUrl(tr),
                 body |-> item, ok |-> postOk, reply |-> <<>>]
    IN  [d |-> r.d,
         device |-> IF postOk THEN DeviceSet(dev, item) ELSE dev,
         requests |-> r.requests \o <<post>>,
         diags |-> IF postOk THEN r.diags ELSE "errPost",
         reads |-> r.reads,
         written |-> IF postOk
                     THEN {dev[k].id : k \in WriteTargets(dev, item)} ELSE {}]

\* Variant of resCreateUpdate that stores the identifier once the write is
\* through.
ResCreateUpdateSetIdLate(dd, dev, ver, tr, postOk, getOk) ==
    LET item == TerraformResourceDataToMikrotik(dd)
        d1   == [dd EXCEPT !.id = dd.numbers]
        post == [verb |-> "post", path |-> ResourcePath \o ResUrl(tr),
                 body |-> item, ok |-> postOk, reply |-> <<>>]
    IN  IF ~postOk
        THEN [d |-> dd, device |-> dev, requests |-> <<post>>,
              diags |-> "errPost", reads |-> 0, written |-> {}]
        ELSE LET dev2 == DeviceSet(dev, item)
                 r    == ResRead(d1, dev2, ver, getOk)
             IN  [d |-> r.d, device |-> dev2,
                  requests |-> <<post>> \o r.requests,
                  diags |-> r.diags, reads |-> r.reads,
                  written |-> {dev[k].id : k \in WriteTargets(dev, item)}]

\* Lines 135-153: resCreateUpdate.
ResCreateUpdate(dd, dev, ver, tr, postOk, getOk) ==
    LET item == TerraformResourceDataToMikrotik(dd)
        d1   == [dd EXCEPT !.id = dd.numbers]
        post == [verb |-> "post", path |-> ResourcePath \o ResUrl(tr),
                 body |-> item, ok |-> postOk, reply |-> <<>>]
    IN  IF ~postOk
        THEN [d |-> d1, device |-> dev, requests |-> <<post>>,
              diags |-> "errPost", reads |-> 0, written |-> {}]
        ELSE LET dev2 == DeviceSet(dev, item)
                 r    == ResRead(d1, dev2, ver, getOk)
             IN  [d |-> r.d, device |-> dev2,
                  requests |-> <<post>> \o r.requests,
                  diags |-> r.diags, reads |-> r.reads,
                  written |-> {dev[k].id : k \in WriteTargets(dev, item)}]

\* Line 156: CreateContext: resCreateUpdate.
CreateContext(dd, dev, ver, tr, postOk, getOk) ==
    ResCreateUpdate(dd, dev, ver, tr, postOk, getOk)

\* Variant of the update handler that writes and does not read back.
UpdateWithoutRead(dd, dev, ver, tr, postOk, getOk) ==
    LET r == ResCreateUpdate(dd, dev, ver, tr, postOk, getOk)
    IN  IF ~postOk THEN r
        ELSE [r EXCEPT !.d = [dd EXCEPT !.id = dd.numbers],
                       !.requests = <<r.requests[1]>>,
                       !.diags = "nil", !.reads = 0]

\* Line 158: UpdateContext: resCreateUpdate.
UpdateContext(dd, dev, ver, tr, postOk, getOk) ==
    ResCreateUpdate(dd, dev, ver, tr, postOk, getOk)

\* The router's side of the remove: the item with that identifier is gone;
\* an identifier no item carries removes nothing.
DeviceRemove(dev, ident) == SelectSeq(dev, LAMBDA it : it.id # ident)

\* Variant of the delete handler that keeps the stored identifier.
DeleteKeepId(dd, dev, delOk) ==
    LET req == [verb |-> "delete", path |-> ResourcePath,
                body |-> [id |-> dd.id], ok |-> delOk, reply |-> <<>>]
    IN  IF dd.id = ""
        THEN [d |-> dd, device |-> dev, requests |-> <<>>, diags |-> "nil"]
        ELSE IF ~delOk
        THEN [d |-> dd, device |-> dev, requests |-> <<req>>,
              diags |-> "errDelete"]
        ELSE [d |-> dd, device |-> DeviceRemove(dev, dd.id),
              requests |-> <<req>>, diags |-> "nil"]

\* Line 159: DefaultSystemDelete(resSchema). A remove keyed by the stored
\* identifier; an instance without identifier is absent already and nothing
\* is sent; the identifier is cleared once the remove went through.
DefaultSystemDelete(dd, dev, delOk) ==
    LET req == [verb |-> "delete", path |-> ResourcePath,
                body |-> [id |-> dd.id], ok |-> delOk, reply |-> <<>>]
    IN  IF dd.id = ""
        THEN [d |-> dd, device |-> dev, requests |-> <<>>, diags |-> "nil"]
        ELSE IF ~delOk
        THEN [d |-> dd, device |-> dev, requests |-> <<req>>,
              diags |-> "errDelete"]
        ELSE [d |-> [dd EXCEPT !.id = ""], device |-> DeviceRemove(dev, dd.id),
              requests |-> <<req>>, diags |-> "nil"]

NoCall ==
    [op |-> "none", declared |-> [numbers |-> "", certificate |-> ""],
     requests |-> <<>>, diags |-> "nil", reads |-> 0, written |-> {}]

\* The record before the first handler call: a fresh one, or one stored by an
\* earlier run.
FreshRecord ==
    [id |-> "", numbers |-> "ssh", certificate |-> "", name |-> "", proto |-> ""]

StoredRecords ==
    {[id |-> DeviceId(1), numbers |-> n, certificate |-> "", name |-> n,
      proto |-> "udp"] : n \in ServiceNames}

ResourceInit ==
    /\ d \in {FreshRecord} \cup StoredRecords
    /\ device \in Devices
    /\ RouterOSVersion \in Versions
    /\ transport \in Transports
    /\ last = NoCall

\* ReadContext: resRead.
Read ==
    \E getOk \in BOOLEAN :
        LET r == ResRead(d, device, RouterOSVersion, getOk)
        IN  /\ d' = r.d
            /\ last' = [op |-> "read",
                        declared |-> [numbers |-> d.numbers,
                                      certificate |-> d.certificate],
                        requests |-> r.requests, diags |-> r.diags,
                        reads |-> r.reads, written |-> {}]
            /\ UNCHANGED <<device, RouterOSVersion, transport>>
            /\ UNCHANGED <<importerVars, diffVars>>

\* The effect of resCreateUpdate called on record dd for operation op.
CreateUpdate(op, dd) ==
    \E postOk \in BOOLEAN, getOk \in BOOLEAN :
        LET r == IF op = "create"
                 THEN CreateContext(dd, device, RouterOSVersion, transport,
                                    postOk, getOk)
                 ELSE UpdateContext(dd, device, RouterOSVersion, transport,
                                    postOk, getOk)
        IN  /\ d' = r.d
            /\ device' = r.device
            /\ last' = [op |-> op,
                        declared |-> [numbers |-> dd.numbers,
                                      certificate |-> dd.certificate],
                        requests |-> r.requests, diags |-> r.diags,
                        reads |-> r.reads, written |-> r.written]
            /\ UNCHANGED <<RouterOSVersion, transport>>
            /\ UNCHANGED <<importerVars, diffVars>>

\* CreateContext: resCreateUpdate on a record built from the configuration;
\* the instance has no identifier and its computed fields are unset.
Create ==
    /\ d.id = ""
    /\ \E cfg \in Declared :
          CreateUpdate("create",
                       [id |-> "", numbers |-> cfg.numbers,
                        certificate |-> cfg.certificate,
                        name |-> "", proto |-> ""])

\* UpdateContext: resCreateUpdate on the stored record with the new
\* configuration's values.
Update ==
    /\ d.id # ""
    /\ \E cfg \in Declared :
          CreateUpdate("update",
                       [d EXCEPT !.numbers = cfg.numbers,
                                 !.certificate = cfg.certificate])

\* DeleteContext: DefaultSystemDelete.
Delete ==
    \E delOk \in BOOLEAN :
        LET r == DefaultSystemDelete(d, device, delOk)
        IN  /\ d' = r.d
            /\ device' = r.device
            /\ last' = [op |-> "delete",
                        declared |-> [numbers |-> d.numbers,
                                      certificate |-> d.certificate],
                        requests |-> r.requests, diags |-> r.diags,
                        reads |-> 0, written |-> {}]
            /\ UNCHANGED <<RouterOSVersion, transport>>
            /\ UNCHANGED <<importerVars, diffVars>>

\* The resource at rest while the importer or the predicate is exercised.
ResourceIdle ==
    /\ d = FreshRecord
    /\ device = <<>>
    /\ RouterOSVersion = <<7, 19>>
    /\ transport = "REST"
    /\ last = NoCall

DiffIdle ==
    /\ oldValue = ""
    /\ newValue = ""
    /\ suppressed = <<>>

(***************************************************************************)
(* Specifications                                                          *)
(***************************************************************************)
Init == ImporterInit /\ DiffIdle /\ ResourceInit

Next == Read \/ Create \/ Update

Spec == Init /\ [][Next]_vars

\* Delete depends neither on the transport nor on the version gate: the
\* life cycle with Delete is explored over REST with one version on each side
\* of the gate.
InitDelete ==
    /\ Init
    /\ transport = "REST"
    /\ RouterOSVersion \in {<<7, 16>>, <<7, 19>>}

NextDelete == Read \/ Create \/ Update \/ Delete

SpecDelete == InitDelete /\ [][NextDelete]_vars

InitImporter == ImporterInit /\ DiffIdle /\ ResourceIdle

NextImporter ==
    \/ GetResourceId_Call
    \/ Run_NewSessionFails
    \/ Run_NewSession
    \/ Run_CommandFails
    \/ Run_CommandOk
    \/ GetResourceId_Return

SpecImporter == InitImporter /\ [][NextImporter]_vars

InitDiff == ImporterInit /\ DiffInit /\ ResourceIdle

NextDiff == DiffSuppress_Call

SpecDiff == InitDiff /\ [][NextDiff]_vars

(***************************************************************************)
(* Properties of GetResourceId (checked under SpecImporter)                *)
(***************************************************************************)
\* The probes whose command succeeded and whose output matched the pattern.
Matched(h) == ~h.err /\ Len(FindStringSubmatch(h.out)) = 2

Successes == {i \in 1..Len(hist) : Matched(hist[i])}

LastSuccess == CHOOSE i \in Successes : \A j \in Successes : j <= i

IdOf(i) == FindStringSubmatch(hist[i].out)[2]

Returned == pc = "idle" /\ ret # NoReturn

\* C1: GetResourceId returns the identifier of the last candidate field, in
\* list order, whose command succeeded and whose output matched; while the
\* loop runs, `id` holds the identifier of the last success so far, so a later
\* failure never discards it.
C1_LastSuccessWins ==
    Successes # {} =>
        /\ id = IdOf(LastSuccess)
        /\ Returned => ret = IdOf(LastSuccess)

\* Fields [A, B, C]: A and B both yield identifiers, different ones, C fails;
\* B's identifier is returned.
C1_Witness ==
    /\ Returned
    /\ Len(requiredFields) = 3
    /\ Successes = {1, 2}
    /\ IdOf(1) # IdOf(2)
    /\ hist[3].err
    /\ ret = IdOf(2)

\* C2: a completed GetResourceId call never hands back the empty text: it
\* returns the sentinel "?" when no field succeeded (the empty list included)
\* and a non-empty extracted identifier otherwise.
C2_SentinelOrIdentifier ==
    Returned =>
        /\ ret # <<>>
        /\ Successes = {} => ret = <<"?">>
        /\ Successes # {} => (ret # <<"?">> /\ \E i \in Successes : ret = IdOf(i))

\* Three fields probed, one command failed, one output did not match, none
\* yielded an identifier: the sentinel is returned.
C2_Witness ==
    /\ Returned
    /\ Len(requiredFields) = 3
    /\ Successes = {}
    /\ \E i \in 1..3 : hist[i].err
    /\ \E i \in 1..3 : ~hist[i].err
    /\ ret = <<"?">>

\* C12: a conn.Run call creates at most one session and submits exactly one
\* command line on the session it created; a call whose session could not be
\* created submits nothing; a call that fails returns the empty text with
\* its error; only a call whose command was submitted returns output.
C12_RunOneSessionOneCommand ==
    /\ \A i \in 1..Len(hist) : hist[i].err => hist[i].out = <<>>
    /\ opened <= Len(calls)
    /\ pc = "session" => (opened = Len(cmds) + 1 /\ sessions = 1)
    /\ pc # "session" => opened = Len(cmds)
    /\ Cardinality({i \in 1..Len(hist) : ~hist[i].err}) <= Len(cmds)
    /\ \A i \in 1..Len(cmds) : \E j \in 1..Len(calls) : cmds[i] = calls[j]

\* Three Run calls: one could not create its session, one had its command
\* fail, one returned output; two sessions were created, two commands sent.
C12_Witness ==
    /\ Returned
    /\ Len(calls) = 3
    /\ opened = 2
    /\ Len(cmds) = 2
    /\ hist[1].err /\ hist[2].err /\ ~hist[3].err
    /\ hist[3].out # <<>>

\* C14: GetResourceId calls conn.Run once per candidate field, with the
\* command of that field, in list order, and starts a call only when the one
\* before has returned; it goes on after a success as after a failure, so at
\* the return the calls are as many as the fields. (The commands that reach
\* the router are those of the calls whose session was created.)
C14_OneCommandPerField ==
    /\ Len(calls) <= Len(requiredFields)
    /\ \A i \in 1..Len(calls) : calls[i] = Command(ImportPath, requiredFields[i])
    /\ pc = "loop" => (Len(calls) = idx - 1 /\ Len(hist) = Len(calls))
    /\ pc = "session" => (Len(calls) = idx /\ Len(hist) = Len(calls) - 1)
    /\ Returned => (Len(calls) = Len(requiredFields)
                    /\ Len(hist) = Len(requiredFields))
    /\ Len(cmds) <= Len(calls)

\* Three fields: the first probe found an identifier, the second failed, and
\* all three commands were run.
C14_Witness ==
    /\ Returned
    /\ Len(requiredFields) = 3
    /\ requiredFields[1] # requiredFields[2]
    /\ Matched(hist[1])
    /\ hist[2].err
    /\ Len(calls) = 3
    /\ Len(cmds) = 3

\* C17: a session is open only while conn.Run is between NewSession and its
\* return; at most one is open at any time, and none between calls or after
\* GetResourceId has returned, whether the command succeeded or failed.
C17_NoSessionLeak ==
    /\ sessions \in {0, 1}
    /\ pc = "session" <=> sessions = 1
    /\ pc \in {"idle", "loop"} => sessions = 0

\* Three sessions were created, one command failed and one succeeded, and
\* none is open after the return.
C17_Witness ==
    /\ Returned
    /\ opened = 3
    /\ \E i \in 1..3 : hist[i].err
    /\ \E i \in 1..3 : ~hist[i].err
    /\ sessions = 0

(***************************************************************************)
(* Properties of the resource handlers (checked under Spec)                *)
(***************************************************************************)
\* The query resRead sent in the last handler call, if it sent one.
HasGet ==
    /\ Len(last.requests) > 0
    /\ last.requests[Len(last.requests)].verb = "get"

LastGet == last.requests[Len(last.requests)]

Posts == {i \in 1..Len(last.requests) : last.requests[i].verb = "post"}

Gets == {i \in 1..Len(last.requests) : last.requests[i].verb = "get"}

ParseFails == parseRouterOSVersion(RouterOSVersion).err

C4_ManyMatchesRaise ==
    (HasGet /\ LastGet.ok /\ Len(LastGet.reply) > 1) =>
        /\ last.diags = "DataConsistencyError"
        /\ \A k \in 1..Len(LastGet.reply) : d.id # LastGet.reply[k].id

\* A version at or above 7.19, read off its segments.
AtLeast719(v) == v[1] > 7 \/ (v[1] = 7 /\ v[2] >= 19)

\* C5: for a version that parses, Read sends a filter with name = the
\* declared `numbers`, and with dynamic = "false" exactly when the version is
\* 7.19 or later; the filter has no other entry.
C5_VersionGate ==
    /\ (last.reads = 1 /\ ~ParseFails) => HasGet
    /\ HasGet =>
        /\ ~ParseFails
        /\ LastGet.body.name = last.declared.numbers
        /\ DOMAIN LastGet.body \subseteq {"name", "dynamic"}
        /\ ("dynamic" \in DOMAIN LastGet.body) <=> AtLeast719(RouterOSVersion)
        /\ ("dynamic" \in DOMAIN LastGet.body) => LastGet.body.dynamic = "false"

\* A router reporting exactly 7.19: the filter for "ssh" carries the clause.
C5_Witness ==
    /\ RouterOSVersion = <<7, 19>>
    /\ last.op = "read"
    /\ HasGet
    /\ LastGet.body = [name |-> "ssh", dynamic |-> "false"]

\* C6: when the version does not parse, a Read step leaves the record as it
\* was and sends nothing, and a Create or Update step sends only its write:
\* no query goes out, and the handler ends in the panic.
C6_ParseFailureAborts ==
    [][ParseFails =>
          /\ Read => (d' = d /\ last'.requests = <<>> /\ last'.diags = "panic")
          /\ (Create \/ Update) =>
                /\ \A i \in 1..Len(last'.requests) : last'.requests[i].verb # "get"
                /\ last'.diags \in {"panic", "errPost"}
                /\ d'.id = last'.declared.numbers
          /\ Update => (d'.name = d.name /\ d'.proto = d.proto)
       ]_vars

\* Read on a stored record against a router with items and an unparsable
\* version: the panic, no request, the identifier kept.
C6_Witness ==
    /\ ParseFails
    /\ last.op = "read"
    /\ last.diags = "panic"
    /\ last.requests = <<>>
    /\ Len(device) > 0
    /\ d \in StoredRecords

\* What the Read of a Create-or-Update returned, read off the requests.
ReadOutcome ==
    IF ParseFails THEN "panic"
    ELSE IF ~HasGet THEN "none"
    ELSE IF ~LastGet.ok THEN "errGet"
    ELSE IF Len(LastGet.reply) = 0 THEN "errorNoLongerExists"
    ELSE "nil"

\* C8: Create-or-Update sends exactly one write, as its first request; when
\* the write succeeds resRead runs once, after it, and the handler returns
\* what that Read returned.
C8_OneWriteThenRead ==
    last.op \in {"create", "update"} =>
        /\ Cardinality(Posts) = 1
        /\ last.requests[1].verb = "post"
        /\ last.requests[1].ok =>
              /\ last.reads = 1
              /\ Cardinality(Gets) <= 1
              /\ last.diags = ReadOutcome

\* A Create whose write and query both succeeded and matched an item.
C8_Witness ==
    /\ last.op = "create"
    /\ Len(last.requests) = 2
    /\ last.requests[1].verb = "post" /\ last.requests[1].ok
    /\ last.requests[2].verb = "get" /\ last.requests[2].ok
    /\ last.reads = 1
    /\ last.diags = "nil"

\* C9: the write goes to the resource path plus "/set" on the REST transport
\* and to the resource path itself on any other transport; the path never
\* ends in the stored identifier.
C9_Endpoint ==
    \A i \in Posts :
        /\ transport = "REST" => last.requests[i].path = "/ip/service/set"
        /\ transport # "REST" => last.requests[i].path = "/ip/service"
        /\ last.requests[i].path # ResourcePath \o "/" \o last.declared.numbers
        /\ \A k \in 1..Len(device) :
              last.requests[i].path # ResourcePath \o "/" \o device[k].id

\* An Update over REST of a record that has adopted a router identifier.
C9_Witness ==
    /\ transport = "REST"
    /\ last.op = "update"
    /\ last.diags = "nil"
    /\ \E k \in 1..Len(device) : d.id = device[k].id
    /\ last.requests[1].path = "/ip/service/set"

\* C10: after a Create or Update whose write and Read succeeded, the computed
\* fields name and proto hold the values of the adopted router item, the
\* write carried no computed field, and, when the adopted item is one the
\* write was applied to, the declared certificate is the stored one.
C10_ComputedFromDevice ==
    (last.op \in {"create", "update"} /\ last.diags = "nil") =>
        /\ \E k \in 1..Len(device) :
              /\ device[k].id = d.id
              /\ d.name = device[k].name
              /\ d.proto = device[k].proto
        /\ \A i \in Posts :
              DOMAIN last.requests[i].body \cap {"name", "proto"} = {}
        /\ d.numbers = last.declared.numbers
        /\ d.id \in last.written => d.certificate = last.declared.certificate

\* Create of {numbers: "www-ssl", certificate: "https-cert"}: the record
\* starts with unset computed fields and ends with the router's.
C10_Witness ==
    /\ last.op = "create"
    /\ last.diags = "nil"
    /\ last.declared = [numbers |-> "www-ssl", certificate |-> "https-cert"]
    /\ d.id \in last.written
    /\ d.certificate = "https-cert"
    /\ d.name = "www-ssl"
    /\ d.proto = DeviceProto("www-ssl")

\* The record Create is called on for a configuration: no identifier, the
\* computed fields unset.
FreshFor(cfg) ==
    [id |-> "", numbers |-> cfg.numbers, certificate |-> cfg.certificate,
     name |-> "", proto |-> ""]

\* The record Update is called on for a configuration: the stored record
\* with the new declared values.
StoredFor(cfg) ==
    [d EXCEPT !.numbers = cfg.numbers, !.certificate = cfg.certificate]

\* C11: against the same router, version and transport, and with the same
\* answers from the router, Create and Update of one declared record send the
\* same requests and leave the same router, the same stored identifier, the
\* same declared fields and the same result; this holds for Create on a fresh
\* record against Update on the stored record, and for both on one record.
C11_UpdateIsCreate ==
    \A cfg \in Declared, postOk \in BOOLEAN, getOk \in BOOLEAN :
        LET c == CreateContext(FreshFor(cfg), device, RouterOSVersion,
                               transport, postOk, getOk)
            u == UpdateContext(StoredFor(cfg), device, RouterOSVersion,
                               transport, postOk, getOk)
        IN  /\ c.requests = u.requests
            /\ c.device = u.device
            /\ c.diags = u.diags
            /\ c.d.id = u.d.id
            /\ c.d.numbers = u.d.numbers
            /\ c.d.certificate = u.d.certificate
            /\ CreateContext(StoredFor(cfg), device, RouterOSVersion,
                             transport, postOk, getOk) = u

\* An Update of a stored record (computed fields set by an earlier Read)
\* whose write and Read succeeded, on a router where a Create of the same
\* configuration adopts the same identifier.
C11_Witness ==
    /\ last.op = "update"
    /\ last.diags = "nil"
    /\ Len(last.requests) = 2
    /\ d.name # "" /\ d.proto # ""
    /\ \E k \in 1..Len(device) : d.id = device[k].id

\* C15: when Create, Update or Read ends without error or not-found, the
\* stored identifier is the .id of the item the query matched (the first of
\* the reply), an identifier of the router and not the declared `numbers`.
C15_AdoptsDeviceId ==
    (last.op \in {"create", "update", "read"} /\ last.diags = "nil") =>
        /\ HasGet /\ LastGet.ok /\ Len(LastGet.reply) > 0
        /\ d.id = LastGet.reply[1].id
        /\ d.id # last.declared.numbers
        /\ \E k \in 1..Len(device) : device[k].id = d.id

\* A Create of "ssh" whose Read matched exactly one item, not the first of
\* the router: its identifier replaced the provisional "ssh".
C15_Witness ==
    /\ last.op = "create"
    /\ last.diags = "nil"
    /\ last.declared.numbers = "ssh"
    /\ Len(LastGet.reply) = 1
    /\ d.id = DeviceId(2)

\* C16: when the write of Create-or-Update fails the handler returns the
\* transport error, resRead does not run, the write is the only request, and
\* the stored identifier is the declared `numbers`.
C16_FailedWrite ==
    (last.op \in {"create", "update"} /\ ~last.requests[1].ok) =>
        /\ last.diags = "errPost"
        /\ last.reads = 0
        /\ Len(last.requests) = 1
        /\ d.id = last.declared.numbers
        /\ d.id # ""

\* A Create (the record had no identifier) whose write failed.
C16_Witness ==
    /\ last.op = "create"
    /\ last.diags = "errPost"
    /\ Len(last.requests) = 1
    /\ d.id = "www-ssl"

(***************************************************************************)
(* Property of Delete (checked under SpecDelete)                           *)
(***************************************************************************)
\* C13: a Delete on an instance without stored identifier succeeds and sends
\* nothing; a Delete that succeeds leaves no stored identifier; so a Delete
\* right after a successful Delete succeeds too.
C13_DeleteIdempotent ==
    [][Delete =>
          /\ d.id = "" => (last'.diags = "nil" /\ last'.requests = <<>>
                           /\ d' = d /\ device' = device)
          /\ last'.diags = "nil" => d'.id = ""
          /\ (last.op = "delete" /\ last.diags = "nil") => last'.diags = "nil"
       ]_vars

\* A successful Delete of an instance that had no stored identifier, on a
\* router that holds items.
C13_Witness ==
    /\ last.op = "delete"
    /\ last.diags = "nil"
    /\ last.requests = <<>>
    /\ d.id = ""
    /\ Len(device) > 0

(***************************************************************************)
(* Property of the "address" DiffSuppressFunc (checked under SpecDiff)     *)
(***************************************************************************)
\* C7: declared "" against live "0.0.0.0/0" is suppressed, declared ""
\* against live "10.0.0.0/24" is reported, and any other pair is suppressed
\* exactly when the two values are the same. The declared value is newValue
\* and the live value is oldValue.
C7_AddressSuppression ==
    suppressed # <<>> =>
        IF newValue = "" /\ oldValue = "0.0.0.0/0" THEN suppressed[1]
        ELSE IF newValue = "" /\ oldValue = "10.0.0.0/24" THEN ~suppressed[1]
        ELSE suppressed[1] <=> (oldValue = newValue)

====
